---- MODULE Spec2Model ----
(***************************************************************************)
(* Beam analysis (src/js/beam-analysis.js): the BeamAnalysis facade, the   *)
(* simplySupported and twoSpanUnequal analyzers and their sampling loops.  *)
(*                                                                         *)
(* A value that is used more than once is handed to an operator as an      *)
(* argument rather than named in a LET, so the definitions below come in   *)
(* short chains, each one naming what the next one uses.                   *)
(***************************************************************************)
EXTENDS Integers, Sequences, FiniteSets, TLC

(***************************************************************************)
(* Unsigned integers of any width: a sequence of limbs of 14 bits, the     *)
(* least significant limb first.                                           *)
(***************************************************************************)
B == 2^14

\* the number of significant bits of one limb
LimbBits(n) ==
    IF n < 128
    THEN IF n < 8
         THEN IF n < 2 THEN n ELSE IF n < 4 THEN 2 ELSE 3
         ELSE IF n < 32 THEN (IF n < 16 THEN 4 ELSE 5)
              ELSE IF n < 64 THEN 6 ELSE 7
    ELSE IF n < 2048
         THEN IF n < 512 THEN (IF n < 256 THEN 8 ELSE 9)
              ELSE IF n < 1024 THEN 10 ELSE 11
         ELSE IF n < 8192 THEN (IF n < 4096 THEN 12 ELSE 13) ELSE 14

\* limb i of L, zero outside L
At(L, i) == IF i >= 1 /\ i <= Len(L) THEN L[i] ELSE 0

\* carry propagation over four or five columns of any sign; the result
\* has one limb more, holding the carry out (negative when the value is
\* negative)
Carry4(c1, c2, c3, c4) ==
    LET t2 == c2 + (c1 \div B)
        t3 == c3 + (t2 \div B)
        t4 == c4 + (t3 \div B)
    IN  <<c1 % B, t2 % B, t3 % B, t4 % B, t4 \div B>>

Carry5(c1, c2, c3, c4, c5) ==
    LET t2 == c2 + (c1 \div B)
        t3 == c3 + (t2 \div B)
        t4 == c4 + (t3 \div B)
        t5 == c5 + (t4 \div B)
    IN  <<c1 % B, t2 % B, t3 % B, t4 % B, t5 % B, t5 \div B>>

\* x * y for x and y of four limbs: eight limbs
Mul44(x, y) ==
    LET t1 == x[1] * y[1]
        t2 == x[1] * y[2] + x[2] * y[1] + (t1 \div B)
        t3 == x[1] * y[3] + x[2] * y[2] + x[3] * y[1] + (t2 \div B)
        t4 == x[1] * y[4] + x[2] * y[3] + x[3] * y[2] + x[4] * y[1] + (t3 \div B)
        t5 == x[2] * y[4] + x[3] * y[3] + x[4] * y[2] + (t4 \div B)
        t6 == x[3] * y[4] + x[4] * y[3] + (t5 \div B)
        t7 == x[4] * y[4] + (t6 \div B)
    IN  <<t1 % B, t2 % B, t3 % B, t4 % B, t5 % B, t6 % B, t7 % B, t7 \div B>>

\* the index of the most significant limb that is not zero, 0 if none
TopLimb(L) ==
    IF \A i \in 1..Len(L) : L[i] = 0 THEN 0
    ELSE CHOOSE i \in 1..Len(L) : L[i] # 0 /\ \A j \in (i + 1)..Len(L) : L[j] = 0

\* limb i of L / lo, for lo = 2^r and up = 2^(14 - r)
Limb(L, i, lo, up) == (At(L, i) \div lo) + (At(L, i + 1) % lo) * up

\* q with its lowest bit set if bits were lost
Jam(q, lost) ==
    IF lost /\ q[1] % 2 = 0 THEN <<q[1] + 1, q[2], q[3], q[4]>> ELSE q

\* four limbs of L / (B^a * lo), for lo = 2^r and up = 2^(14 - r); the
\* lowest bit is set when the division lost bits
Shift(L, a, lo, up) ==
    Jam(<<Limb(L, a + 1, lo, up), Limb(L, a + 2, lo, up),
          Limb(L, a + 3, lo, up), Limb(L, a + 4, lo, up)>>,
        At(L, a + 1) % lo # 0 \/ \E i \in 1..a : At(L, i) # 0)

\* q / 2^k rounded down, for q of four limbs, not zero; the lowest bit of
\* the result is set when the division lost bits
ShrJam(q, k) ==
    IF k = 0 THEN q
    ELSE IF k >= 56 THEN <<1, 0, 0, 0>>
    ELSE Shift(q, k \div 14, 2^(k % 14), 2^(14 - (k % 14)))

\* m * 8
Shl3(m) ==
    << (m[1] % 2048) * 8,
       (m[2] % 2048) * 8 + (m[1] \div 2048),
       (m[3] % 2048) * 8 + (m[2] \div 2048),
       m[4] * 8 + (m[3] \div 2048) >>

(***************************************************************************)
(* IEEE-754 binary64, the JavaScript Number.  A value is a record          *)
(* [k, s, e, m]: k is "num" for s * m * 2^e with s in {1, -1} and m an     *)
(* integer of exactly 53 bits in four limbs, "zero" for s * 0, "inf" for  *)
(* s * Infinity and "nan".  Every operation rounds to nearest, ties to     *)
(* even.  The largest finite value is (2^53 - 1) * 2^971, beyond it a      *)
(* result is s * Infinity; the smallest step is 2^-1074, and a result      *)
(* below 2^-1022 is rounded to a multiple of it (a subnormal, kept here    *)
(* with its 53 bit significand and an exponent below -1074) or to s * 0.   *)
(***************************************************************************)
MaxExp == 971

MinExp == 0 - 1074

NoBits == <<0, 0, 0, 0>>

FNaN == [k |-> "nan", s |-> 1, e |-> 0, m |-> NoBits]

FZero(s) == [k |-> "zero", s |-> s, e |-> 0, m |-> NoBits]

FInf(s) == [k |-> "inf", s |-> s, e |-> 0, m |-> NoBits]

\* s * m * 2^e for the limbs m1, m2, m3, m4 of m, of 53 bits
Double(s, e, m1, m2, m3, m4) ==
    [k |-> "num", s |-> s, e |-> e, m |-> <<m1, m2, m3, m4>>]

\* s * m * 2^e for m of 53 bits: Infinity beyond the largest finite value
Finite(s, e, m) ==
    IF e > MaxExp THEN FInf(s) ELSE [k |-> "num", s |-> s, e |-> e, m |-> m]

\* s * r * 2^e for r of n bits, 0 < n < 53: a subnormal, its significand
\* moved up to 53 bits
Subnormal(s, e, r, n) ==
    [k |-> "num", s |-> s, e |-> e - (53 - n),
     m |-> <<Limb(r, (n - 53) \div 14 + 1, 2^((n - 53) % 14), 2^(14 - ((n - 53) % 14))),
             Limb(r, (n - 53) \div 14 + 2, 2^((n - 53) % 14), 2^(14 - ((n - 53) % 14))),
             Limb(r, (n - 53) \div 14 + 3, 2^((n - 53) % 14), 2^(14 - ((n - 53) % 14))),
             Limb(r, (n - 53) \div 14 + 4, 2^((n - 53) % 14), 2^(14 - ((n - 53) % 14)))>>]

\* s * r * 2^e for r of at most 53 bits whose most significant limb that
\* is not zero is r[n]; s * 0 when r is zero
Denormal(s, e, r, n) ==
    IF n = 0 THEN FZero(s)
    ELSE Subnormal(s, e, r, 14 * (n - 1) + LimbBits(r[n]))

\* s * r * 2^e for r of at most 53 bits, or r = 2^53, with a carry limb
Normal(s, e, r) ==
    IF r[4] = 2048 THEN Finite(s, e + 1, <<0, 0, 0, 1024>>)
    ELSE IF r[4] >= 1024 THEN Finite(s, e, <<r[1], r[2], r[3], r[4]>>)
    ELSE Denormal(s, e, <<r[1], r[2], r[3], r[4]>>, TopLimb(<<r[1], r[2], r[3], r[4]>>))

\* s * q * 2^e rounded to a multiple of 2^(e + 3), for q of at most 56
\* bits in four limbs whose lowest bit is set when bits below it were lost
RoundPack(s, e, q) ==
    Normal(s, e + 3,
           Carry4((q[2] % 8) * 2048 + (q[1] \div 8)
                    + (IF q[1] % 8 > 4 \/ q[1] % 16 = 12 THEN 1 ELSE 0),
                  (q[3] % 8) * 2048 + (q[2] \div 8),
                  (q[4] % 8) * 2048 + (q[3] \div 8),
                  q[4] \div 8))

\* s * L * 2^e rounded after L is divided by 2^drop
PackShift(s, e, L, drop) ==
    RoundPack(s, e + drop,
              Shift(L, drop \div 14, 2^(drop % 14), 2^(14 - (drop % 14))))

\* s * L * 2^e rounded after L is divided by 2^drop to 56 bits, or to
\* fewer bits when the result is below 2^-1022: the last bit kept is then
\* the one of 2^-1074
PackDrop(s, e, L, drop) ==
    PackShift(s, e, L, IF e + drop + 3 < MinExp THEN MinExp - 3 - e ELSE drop)

\* s * L * 2^e rounded, for limbs L of any length whose most significant
\* limb that is not zero is L[n], and whose lowest bit is set when bits
\* below it were lost
PackAt(s, e, L, n) == PackDrop(s, e, L, 14 * (n - 1) + LimbBits(L[n]) - 56)

\* s * L * 2^e rounded; +0 when L is zero
Pack(s, e, L, n) == IF n = 0 THEN FZero(1) ELSE PackAt(s, e, L, n)

\* the Number of an integer
FromInt(n) ==
    IF n = 0 THEN FZero(1)
    ELSE IF n < 0
    THEN PackAt(-1, 0, <<(-n) % B, ((-n) \div B) % B, (-n) \div (B * B)>>,
                IF -n >= B * B THEN 3 ELSE IF -n >= B THEN 2 ELSE 1)
    ELSE PackAt(1, 0, <<n % B, (n \div B) % B, n \div (B * B)>>,
                IF n >= B * B THEN 3 ELSE IF n >= B THEN 2 ELSE 1)

\* -x
FNeg(x) == [x EXCEPT !.s = -x.s]

\* x * y
FMul(x, y) ==
    IF x.k = "nan" \/ y.k = "nan" THEN FNaN
    ELSE IF x.k = "inf" \/ y.k = "inf"
    THEN IF x.k = "zero" \/ y.k = "zero" THEN FNaN ELSE FInf(x.s * y.s)
    ELSE IF x.k = "zero" \/ y.k = "zero" THEN FZero(x.s * y.s)
    ELSE PackAt(x.s * y.s, x.e + y.e, Mul44(x.m, y.m), 8)

\* |x| < |y|, for x and y of kind "num"
MagLt(x, y) ==
    IF x.e # y.e THEN x.e < y.e
    ELSE IF x.m[4] # y.m[4] THEN x.m[4] < y.m[4]
    ELSE IF x.m[3] # y.m[3] THEN x.m[3] < y.m[3]
    ELSE IF x.m[2] # y.m[2] THEN x.m[2] < y.m[2]
    ELSE x.m[1] < y.m[1]

\* s * S * 2^e rounded, for the five limbs S of a sum or a difference
PackSum(s, e, S) == Pack(s, e, S, TopLimb(S))

\* s * (X + t * Y) * 2^e rounded, for t in {1, -1} and X >= Y
AddAligned(s, t, e, X, Y) ==
    PackSum(s, e, Carry4(X[1] + t * Y[1], X[2] + t * Y[2],
                         X[3] + t * Y[3], X[4] + t * Y[4]))

\* x + y for x and y of kind "num" with |x| >= |y|: the smaller operand is
\* aligned to the larger one with three more bits
AddNum(x, y) ==
    AddAligned(x.s, x.s * y.s, x.e - 3, Shl3(x.m), ShrJam(Shl3(y.m), x.e - y.e))

\* x + y
FAdd(x, y) ==
    IF x.k = "nan" \/ y.k = "nan" THEN FNaN
    ELSE IF x.k = "inf"
    THEN IF y.k = "inf" /\ y.s # x.s THEN FNaN ELSE x
    ELSE IF y.k = "inf" THEN y
    ELSE IF x.k = "zero"
    THEN IF y.k = "zero" THEN FZero(IF x.s = -1 /\ y.s = -1 THEN -1 ELSE 1) ELSE y
    ELSE IF y.k = "zero" THEN x
    ELSE AddNum(IF MagLt(x, y) THEN y ELSE x, IF MagLt(x, y) THEN x ELSE y)

\* x - y
FSub(x, y) == FAdd(x, FNeg(y))

\* x < y
FLt(x, y) ==
    IF x.k = "nan" \/ y.k = "nan" THEN FALSE
    ELSE IF x.k = "zero" /\ y.k = "zero" THEN FALSE
    ELSE IF x.k = "zero" THEN y.s = 1
    ELSE IF y.k = "zero" THEN x.s = -1
    ELSE IF x.s # y.s THEN x.s < y.s
    ELSE IF x.k = "inf" \/ y.k = "inf"
    THEN x.k # y.k /\ (IF x.s = 1 THEN y.k = "inf" ELSE x.k = "inf")
    ELSE IF x.s = 1 THEN MagLt(x, y) ELSE MagLt(y, x)

\* x === y
FEq(x, y) ==
    /\ x.k # "nan"
    /\ y.k # "nan"
    /\ (x = y \/ (x.k = "zero" /\ y.k = "zero"))

\* x <= y
FLeq(x, y) == FLt(x, y) \/ FEq(x, y)

\* x > y
FGt(x, y) == FLt(y, x)

\* One digit of a long division: <<d, R * B - d * Y>> for the largest d
\* with d * Y <= R * B, where R < Y and Y has four limbs, Y[4] >= 2^13.
\* The digit is estimated from the leading limbs and corrected downwards.
RECURSIVE DivFix(_, _, _)
DivFix(d, T, Y) ==
    IF T[6] < 0
    THEN DivFix(d - 1,
                Carry5(T[1] + Y[1], T[2] + Y[2], T[3] + Y[3], T[4] + Y[4],
                       T[5] + T[6] * B), Y)
    ELSE <<d, <<T[1], T[2], T[3], T[4]>>>>

DivTry(d, R, Y) ==
    DivFix(d, Carry5(-(d * Y[1]), R[1] - d * Y[2], R[2] - d * Y[3],
                     R[3] - d * Y[4], R[4]), Y)

DivEstimate(est) == IF est > B - 1 THEN B - 1 ELSE est

DivDigit(R, Y) == DivTry(DivEstimate((R[4] * B + R[3]) \div Y[4]), R, Y)

\* The digits of X / Y after the first: Q holds the digits so far, the
\* least significant first, and step is <<d, R>>, the digit and the
\* remainder of the last step.  After five digits the quotient is rounded,
\* its lowest bit set when the division is not exact.
RECURSIVE DivLoop(_, _, _, _, _)
DivLoop(s, e, Y, Q, step) ==
    IF Len(Q) = 4
    THEN PackAt(s, e, <<step[1] + (IF step[2] # NoBits /\ step[1] % 2 = 0 THEN 1 ELSE 0)>> \o Q,
                IF Q[4] = 0 THEN 4 ELSE 5)
    ELSE DivLoop(s, e, Y, <<step[1]>> \o Q, DivDigit(step[2], Y))

\* the first digit of X / Y, 0 or 1, from D = X - Y
DivFirst(X, D) ==
    IF D[5] < 0 THEN <<0, X>> ELSE <<1, <<D[1], D[2], D[3], D[4]>>>>

DivStart(s, e, X, Y) ==
    DivLoop(s, e, Y, <<>>,
            DivFirst(X, Carry4(X[1] - Y[1], X[2] - Y[2], X[3] - Y[3], X[4] - Y[4])))

\* x / y for x and y of kind "num": 57 bits of the quotient of the
\* significands
DivNum(x, y) == DivStart(x.s * y.s, x.e - y.e - 56, Shl3(x.m), Shl3(y.m))

\* x / y
FDiv(x, y) ==
    IF x.k = "nan" \/ y.k = "nan" THEN FNaN
    ELSE IF x.k = "inf"
    THEN IF y.k = "inf" THEN FNaN ELSE FInf(x.s * y.s)
    ELSE IF y.k = "inf" THEN FZero(x.s * y.s)
    ELSE IF x.k = "zero"
    THEN IF y.k = "zero" THEN FNaN ELSE FZero(x.s * y.s)
    ELSE IF y.k = "zero" THEN FInf(x.s * y.s)
    ELSE DivNum(x, y)

(***************************************************************************)
(* Math.pow.  V8 computes it as fdlibm's __ieee754_pow does: the exponent  *)
(* 2 is x * x, and the exponent 3 is 2^(3 * log2 |x|) with the sign of x,  *)
(* the logarithm and the product each carried as a head, whose low 32 bits *)
(* are zero, and a tail.  The result is within one unit in the last place  *)
(* of the power, not always the Number nearest to it.  The names after    *)
(* pow_ are the names of fdlibm; the high word of a Number is the upper 32 *)
(* bits of its encoding, the sign left out, and the low word the lower 32. *)
(***************************************************************************)
\* the upper 20 bits of the fraction of x
Frac20(x) == (x.m[4] % 1024) * 1024 + (x.m[3] \div 16)

\* the high word of x, for x zero or at least 2^-1022
HighWord(x) == IF x.k = "zero" THEN 0 ELSE (x.e + 1075) * 1048576 + Frac20(x)

\* the low word of x is zero
LowWordZero(x) ==
    x.k = "zero" \/ (x.m[1] = 0 /\ x.m[2] = 0 /\ x.m[3] % 16 = 0)

\* the Number of the high word hw and the low word 0
FromHighWord(hw) ==
    IF hw = 0 THEN FZero(1)
    ELSE Double(1, (hw \div 1048576) - 1075,
                0, 0, (hw % 1024) * 16, 1024 + ((hw % 1048576) \div 1024))

\* SET_LOW_WORD(x, 0), for x zero or at least 2^-1022
SetLowWord0(x) ==
    IF x.k # "num" THEN x
    ELSE [x EXCEPT !.m = <<0, 0, x.m[3] - (x.m[3] % 16), x.m[4]>>]

(***************************************************************************)
(* The two straight-line parts of __ieee754_pow are written as they stand  *)
(* in fdlibm, one operation to a line: <<d, a, op, b>> is d = a op b over  *)
(* the variables of the C function, a and b being its temporaries, and     *)
(* <<d, a, "low0", a>> is d = a followed by SET_LOW_WORD(d, 0).            *)
(***************************************************************************)
pow_op(op, a, b) ==
    IF op = "+" THEN FAdd(a, b)
    ELSE IF op = "-" THEN FSub(a, b)
    ELSE IF op = "*" THEN FMul(a, b)
    ELSE IF op = "/" THEN FDiv(a, b)
    ELSE SetLowWord0(a)

\* the variables after the lines i.. of prog are run from the variables
\* regs, a function that is never empty
RECURSIVE pow_run(_, _, _)
pow_run(prog, i, regs) ==
    IF DOMAIN regs = {} \/ i > Len(prog) THEN regs
    ELSE pow_run(prog, i + 1,
                 (prog[i][1] :> pow_op(prog[i][3], regs[prog[i][2]], regs[prog[i][4]]))
                     @@ regs)

\* the constants of __ieee754_pow, each with the two words of its encoding;
\* bp1, dp_h1 and dp_l1 are bp[1], dp_h[1] and dp_l[1], and bp[0] is 1,
\* dp_h[0] and dp_l[0] are 0
pow_constants ==
    [zero |-> FZero(1), one |-> FromInt(1), two |-> FromInt(2),
     three |-> FromInt(3),
     \* 0x3FF80000 0x00000000 = 1.5
     bp1 |-> Double(1, -52, 0, 0, 0, 1536),
     \* 0x3FE2B803 0x40000000 = 0.5849624872207642
     dp_h1 |-> Double(1, -53, 0, 0, 52, 1198),
     \* 0x3E4CFDEB 0x43CFD006 = 1.350039202129749e-08
     dp_l1 |-> Double(1, -79, 4102, 3903, 7860, 1855),
     \* 0x3FE33333 0x33333303 = 0.5999999999999946
     L1 |-> Double(1, -53, 13059, 3276, 13107, 1228),
     \* 0x3FDB6DB6 0xDB6FABFF = 0.4285714285785502
     L2 |-> Double(1, -54, 11263, 11710, 7021, 1755),
     \* 0x3FD55555 0x518F264D = 0.33333332981837743
     L3 |-> Double(1, -54, 9805, 1596, 5461, 1365),
     \* 0x3FD17460 0xA91D4101 = 0.272728123808534
     L4 |-> Double(1, -54, 257, 9333, 1546, 1117),
     \* 0x3FCD864A 0x93C9DB65 = 0.23066074577556175
     L5 |-> Double(1, -55, 7013, 3879, 9385, 1889),
     \* 0x3FCA7E28 0x4A454EEF = 0.20697501780033842
     L6 |-> Double(1, -55, 3823, 10517, 8836, 1695),
     \* 0x3FC55555 0x5555553E = 0.16666666666666602
     P1 |-> Double(1, -55, 5438, 5461, 5461, 1365),
     \* 0xBF66C16C 0x16BEBD93 = -0.0027777777777015593
     P2 |-> Double(-1, -61, 15763, 6906, 5825, 1456),
     \* 0x3F11566A 0xAF25DE2C = 6.613756321437934e-05
     P3 |-> Double(1, -66, 7724, 15511, 9898, 1109),
     \* 0xBEBBBD41 0xC5D26BF1 = -1.6533902205465252e-06
     P4 |-> Double(-1, -72, 11249, 5961, 5148, 1775),
     \* 0x3E663769 0x72BEA4D0 = 4.1381367970572385e-08
     P5 |-> Double(1, -77, 9424, 2810, 13975, 1421),
     \* 0x3FE62E42 0xFEFA39EF = 0.6931471805599453
     lg2 |-> Double(1, -53, 14831, 15336, 9263, 1419),
     \* 0x3FE62E43 0x00000000 = 0.6931471824645996
     lg2_h |-> Double(1, -53, 0, 0, 9264, 1419),
     \* 0xBE205C61 0x0CA86C39 = -1.904654299957768e-09
     lg2_l |-> Double(-1, -81, 11321, 12961, 1552, 1047),
     \* 0x3C971547 0x652B82FE = 8.008566259537294e-17
     ovt |-> Double(1, -106, 766, 5294, 5238, 1477),
     \* 0x3FEEC709 0xDC3A03FD = 0.9617966939259756
     cp |-> Double(1, -53, 1021, 12520, 12445, 1969),
     \* 0x3FEEC709 0xE0000000 = 0.9617967009544373
     cp_h |-> Double(1, -53, 0, 0, 12446, 1969),
     \* 0xBE3E2FE0 0x145B01F5 = -7.028461650952758e-09
     cp_l |-> Double(-1, -80, 501, 4460, 15873, 1931)]

\* z = p_l + p_h = 3 * log2(ax * 2^n), from ax, bp = bp[k], dp_h = dp_h[k],
\* dp_l = dp_l[k], t_h = ax + bp with its low word cleared and t = n
pow_log2 ==
    << <<"u", "ax", "-", "bp">>,
       <<"v", "ax", "+", "bp">>,
       <<"v", "one", "/", "v">>,
       <<"ss", "u", "*", "v">>,
       <<"s_h", "ss", "low0", "ss">>,
       \* t_l = ax - (t_h - bp[k])
       <<"t_l", "t_h", "-", "bp">>,
       <<"t_l", "ax", "-", "t_l">>,
       \* s_l = v * ((u - s_h * t_h) - s_h * t_l)
       <<"a", "s_h", "*", "t_h">>,
       <<"a", "u", "-", "a">>,
       <<"b", "s_h", "*", "t_l">>,
       <<"a", "a", "-", "b">>,
       <<"s_l", "v", "*", "a">>,
       \* s2 = ss * ss
       <<"s2", "ss", "*", "ss">>,
       \* r = s2 * s2 * (L1 + s2 * (L2 + s2 * (L3 + s2 * (L4 + s2 * (L5 + s2 * L6)))))
       <<"r", "s2", "*", "L6">>,
       <<"r", "L5", "+", "r">>,
       <<"r", "s2", "*", "r">>,
       <<"r", "L4", "+", "r">>,
       <<"r", "s2", "*", "r">>,
       <<"r", "L3", "+", "r">>,
       <<"r", "s2", "*", "r">>,
       <<"r", "L2", "+", "r">>,
       <<"r", "s2", "*", "r">>,
       <<"r", "L1", "+", "r">>,
       <<"a", "s2", "*", "s2">>,
       <<"r", "a", "*", "r">>,
       \* r += s_l * (s_h + ss)
       <<"a", "s_h", "+", "ss">>,
       <<"a", "s_l", "*", "a">>,
       <<"r", "r", "+", "a">>,
       \* s2 = s_h * s_h
       <<"s2", "s_h", "*", "s_h">>,
       \* t_h = 3.0 + s2 + r; SET_LOW_WORD(t_h, 0)
       <<"t_h", "three", "+", "s2">>,
       <<"t_h", "t_h", "+", "r">>,
       <<"t_h", "t_h", "low0", "t_h">>,
       \* t_l = r - ((t_h - 3.0) - s2)
       <<"a", "t_h", "-", "three">>,
       <<"a", "a", "-", "s2">>,
       <<"t_l", "r", "-", "a">>,
       \* u = s_h * t_h; v = s_l * t_h + t_l * ss
       <<"u", "s_h", "*", "t_h">>,
       <<"a", "s_l", "*", "t_h">>,
       <<"b", "t_l", "*", "ss">>,
       <<"v", "a", "+", "b">>,
       \* p_h = u + v; SET_LOW_WORD(p_h, 0); p_l = v - (p_h - u)
       <<"p_h", "u", "+", "v">>,
       <<"p_h", "p_h", "low0", "p_h">>,
       <<"a", "p_h", "-", "u">>,
       <<"p_l", "v", "-", "a">>,
       \* z_h = cp_h * p_h; z_l = cp_l * p_h + p_l * cp + dp_l[k]
       <<"z_h", "cp_h", "*", "p_h">>,
       <<"a", "cp_l", "*", "p_h">>,
       <<"b", "p_l", "*", "cp">>,
       <<"a", "a", "+", "b">>,
       <<"z_l", "a", "+", "dp_l">>,
       \* t1 = ((z_h + z_l) + dp_h[k]) + t; SET_LOW_WORD(t1, 0)
       <<"a", "z_h", "+", "z_l">>,
       <<"a", "a", "+", "dp_h">>,
       <<"t1", "a", "+", "t">>,
       <<"t1", "t1", "low0", "t1">>,
       \* t2 = z_l - (((t1 - t) - dp_h[k]) - z_h)
       <<"a", "t1", "-", "t">>,
       <<"a", "a", "-", "dp_h">>,
       <<"a", "a", "-", "z_h">>,
       <<"t2", "z_l", "-", "a">>,
       \* y = 3 is y1 = 3 with its low word cleared:
       \* p_l = (y - y1) * t1 + y * t2; p_h = y1 * t1; z = p_l + p_h
       <<"a", "zero", "*", "t1">>,
       <<"b", "three", "*", "t2">>,
       <<"p_l", "a", "+", "b">>,
       <<"p_h", "three", "*", "t1">>,
       <<"z", "p_l", "+", "p_h">>,
       \* the two sides of the overflow test p_l + ovt > z - p_h and of
       \* the underflow test p_l <= z - p_h
       <<"a", "p_l", "+", "ovt">>,
       <<"b", "z", "-", "p_h">> >>

\* z = 2^(p_l + p_h), for |p_l + p_h| <= 1/2
pow_exp2 ==
    << \* t = p_l + p_h; SET_LOW_WORD(t, 0)
       <<"t", "p_l", "+", "p_h">>,
       <<"t", "t", "low0", "t">>,
       \* u = t * lg2_h; v = (p_l - (t - p_h)) * lg2 + t * lg2_l
       <<"u", "t", "*", "lg2_h">>,
       <<"a", "t", "-", "p_h">>,
       <<"a", "p_l", "-", "a">>,
       <<"a", "a", "*", "lg2">>,
       <<"b", "t", "*", "lg2_l">>,
       <<"v", "a", "+", "b">>,
       \* z = u + v; w = v - (z - u)
       <<"z", "u", "+", "v">>,
       <<"a", "z", "-", "u">>,
       <<"w", "v", "-", "a">>,
       \* t = z * z; t1 = z - t * (P1 + t * (P2 + t * (P3 + t * (P4 + t * P5))))
       <<"t", "z", "*", "z">>,
       <<"a", "t", "*", "P5">>,
       <<"a", "P4", "+", "a">>,
       <<"a", "t", "*", "a">>,
       <<"a", "P3", "+", "a">>,
       <<"a", "t", "*", "a">>,
       <<"a", "P2", "+", "a">>,
       <<"a", "t", "*", "a">>,
       <<"a", "P1", "+", "a">>,
       <<"a", "t", "*", "a">>,
       <<"t1", "z", "-", "a">>,
       \* r = (z * t1) / ((t1 - two) - (w + z * w))
       <<"r", "z", "*", "t1">>,
       <<"a", "z", "*", "w">>,
       <<"a", "w", "+", "a">>,
       <<"b", "t1", "-", "two">>,
       <<"a", "b", "-", "a">>,
       <<"r", "r", "/", "a">>,
       \* z = one - (r - z)
       <<"a", "r", "-", "z">>,
       <<"z", "one", "-", "a">> >>

\* z * 2^n with the sign sn: the high word of z raised by n * 2^20, or
\* scalbn(z, n) when that leaves the normal range
pow_scale(sn, n, z) == PackAt(sn, z.e + n, z.m, 4)

\* 2^(p_l + p_h) * 2^n with the sign sn
pow_t(sn, n, regs) == pow_scale(sn, n, pow_run(pow_exp2, 1, regs).z)

\* the integer n nearest to z = p_l + p_h, of the sign zs, is taken out of
\* p_h (p_h -= t), for the high word na of |z| + 1/2 and step = 2^(20 - k),
\* k the exponent of na: t has the high word na & ~(0x000fffff >> k), and
\* n is ((na & 0x000fffff) | 0x00100000) >> (20 - k)
pow_k(sn, regs, zs, na, step) ==
    pow_t(sn, zs * (((na % 1048576) + 1048576) \div step),
          ("p_h" :> FSub(regs.p_h, [FromHighWord(na - (na % step)) EXCEPT !.s = zs]))
              @@ regs)

\* 2^z for z = p_l + p_h of the sign zs and the high word i: when
\* |z| > 1/2 (i > 0x3fe00000) the nearest integer is split off, and na is
\* i + (0x00100000 >> (k + 1)) for the exponent k of i
pow_n(sn, regs, zs, i, half) ==
    IF i > 1071644672
    THEN pow_k(sn, regs, zs, i + half,
               2^(20 - (((i + half) \div 1048576) - 1023)))
    ELSE pow_t(sn, 0, regs)

\* z overflows: z > 1024 (high word 0x40900000), or z = 1024 and
\* p_l + ovt > z - p_h
pow_overflow(regs, z) ==
    /\ z.s = 1
    /\ HighWord(z) >= 1083179008
    /\ \/ HighWord(z) # 1083179008
       \/ ~LowWordZero(z)
       \/ FGt(regs.a, regs.b)

\* z underflows: z < -1075 (high word 0xc090cc00), or z = -1075 and
\* p_l <= z - p_h
pow_underflow(regs, z) ==
    /\ HighWord(z) >= 1083231232
    /\ \/ HighWord(z) # 1083231232
       \/ ~LowWordZero(z)
       \/ FLeq(regs.p_l, regs.b)

pow_z(sn, regs, z) ==
    IF pow_overflow(regs, z) THEN FInf(sn)
    ELSE IF pow_underflow(regs, z) THEN FZero(sn)
    ELSE pow_n(sn, regs, z.s, HighWord(z),
               IF HighWord(z) > 1071644672
               THEN 1048576 \div 2^((HighWord(z) \div 1048576) - 1022) ELSE 0)

pow_y(sn, regs) == pow_z(sn, regs, regs.z)

\* the variables at the head of the logarithm: ax of the high word ix,
\* bp[k], dp_h[k], dp_l[k], t = n and
\* t_h = ax + bp[k] of the high word
\* ((ix >> 1) | 0x20000000) + 0x00080000 + (k << 18)
pow_ax(sn, n, k, ix, ax) ==
    pow_y(sn,
          pow_run(pow_log2, 1,
                  [ax |-> ax,
                   bp |-> IF k = 0 THEN FromInt(1) ELSE pow_constants.bp1,
                   dp_h |-> IF k = 0 THEN FZero(1) ELSE pow_constants.dp_h1,
                   dp_l |-> IF k = 0 THEN FZero(1) ELSE pow_constants.dp_l1,
                   t |-> FromInt(n),
                   t_h |-> FromHighWord((ix \div 2) + 536870912 + 524288 + k * 262144)]
                  @@ pow_constants))

\* |x| = ax * 2^n with ax near bp[k]: the upper fraction bits j choose
\* k = 0 for |x| < sqrt(3/2) (j <= 0x3988E), k = 1 for |x| < sqrt(3)
\* (j < 0xBB67A), and otherwise k = 0 with ax halved and n one more
pow_interval(sn, n, j, m) ==
    pow_ax(sn, IF j < 767610 THEN n ELSE n + 1,
           IF j > 235662 /\ j < 767610 THEN 1 ELSE 0,
           IF j < 767610 THEN j + 1072693248 ELSE j + 1071644672,
           Double(1, IF j < 767610 THEN -52 ELSE -53, m[1], m[2], m[3], m[4]))

\* Math.pow(x, 3) for x of kind "num"
pow_3(x) == pow_interval(x.s, x.e + 52, Frac20(x), x.m)

\* Math.pow(x, n) for n in {2, 3}
Math_pow(x, n) ==
    IF n = 2 THEN FMul(x, x)
    ELSE IF x.k # "num" THEN x
    ELSE IF x.e = -52 /\ x.m = <<0, 0, 0, 1024>> THEN x
    ELSE pow_3(x)

(***************************************************************************)
(* Decimal text.  <<"dec", s, N, p>> is the decimal numeral of             *)
(* s * N * 10^p with the sign s in {1, -1} and N >= 0 in limbs, no zero    *)
(* limb at the top: "9.25" is <<"dec", 1, <<925>>, -2>> and "-0.0" is      *)
(* <<"dec", -1, <<>>, -1>>.  <<"exp", v>> is the numeral of v in exponent  *)
(* notation, as Number::toString writes it: the digits that read back as  *)
(* v.  The other texts are <<"NaN">>, <<"Infinity">> and <<"-Infinity">>.  *)
(***************************************************************************)

\* L without the zero limbs at its top
Trim(L) == SubSeq(L, 1, TopLimb(L))

\* the limbs of an integer n >= 0
Limbs(n) == Trim(<<n % B, (n \div B) % B, n \div (B * B)>>)

\* six limbs of T / (B^a * lo) rounded down, for lo = 2^r and
\* up = 2^(14 - r); a may be negative
Shift6(T, a, lo, up) ==
    <<Limb(T, a + 1, lo, up), Limb(T, a + 2, lo, up), Limb(T, a + 3, lo, up),
      Limb(T, a + 4, lo, up), Limb(T, a + 5, lo, up), Limb(T, a + 6, lo, up)>>

\* 2^k as a column of limb j, nothing for k < 0
Bit(k, j) == IF j = (k \div 14) + 1 THEN 2^(k % 14) ELSE 0

\* the tenths nearest to m / 2^k, the larger one on a tie:
\* (20 * m + 2^k) / 2^(k + 1) rounded down, for k > -18
Tenths(m, k) ==
    IF k >= 59 THEN <<>>
    ELSE Trim(Shift6(Carry5(20 * m[1] + Bit(k, 1), 20 * m[2] + Bit(k, 2),
                            20 * m[3] + Bit(k, 3), 20 * m[4] + Bit(k, 4),
                            Bit(k, 5)),
                     (k + 1) \div 14, 2^((k + 1) % 14), 2^(14 - ((k + 1) % 14))))

\* 10^21, from where on toFixed writes the exponent notation
TenTo21 == Double(1, 17, 12112, 7051, 11853, 1734)

\* Number.prototype.toFixed(1)
toFixed(v) ==
    IF v.k = "nan" THEN <<"NaN">>
    ELSE IF v.k = "inf" THEN (IF v.s = 1 THEN <<"Infinity">> ELSE <<"-Infinity">>)
    ELSE IF v.k = "zero" THEN <<"dec", 1, <<>>, -1>>
    ELSE IF ~MagLt(v, TenTo21) THEN <<"exp", v>>
    ELSE <<"dec", v.s, Tenths(v.m, -v.e), -1>>

\* the limbs i.. of N * 10 + carry
RECURSIVE TimesTen(_, _, _)
TimesTen(N, i, carry) ==
    IF i > Len(N) THEN (IF carry = 0 THEN <<>> ELSE <<carry>>)
    ELSE <<(10 * N[i] + carry) % B>>
             \o TimesTen(N, i + 1, (10 * N[i] + carry) \div B)

\* N * 10^p
RECURSIVE TimesTenTo(_, _)
TimesTenTo(N, p) ==
    IF N = <<>> \/ p = 0 THEN N ELSE TimesTenTo(TimesTen(N, 1, 0), p - 1)

\* the limbs 1..i of (rem * B^i + N) / 10 rounded down, for rem < 10, after
\* a limb that tells whether the division left a remainder
RECURSIVE OverTen(_, _, _)
OverTen(N, i, rem) ==
    IF i = 0 THEN <<IF rem = 0 THEN 0 ELSE 1>>
    ELSE Append(OverTen(N, i - 1, (rem * B + N[i]) % 10),
                (rem * B + N[i]) \div 10)

\* the quotient Q of a division that has left its remainder flag in Q[1]:
\* the limbs of the quotient, the lowest bit set when there was a remainder
Sticky(Q) ==
    <<IF Q[1] = 1 /\ Q[2] % 2 = 0 THEN Q[2] + 1 ELSE Q[2]>>
        \o SubSeq(Q, 3, Len(Q))

\* N / 10^p rounded down, the lowest bit set when a division left a
\* remainder
RECURSIVE OverTenTo(_, _)
OverTenTo(N, p) ==
    IF N = <<>> \/ p = 0 THEN N
    ELSE OverTenTo(Sticky(OverTen(N, Len(N), 0)), p - 1)

\* s * L * 2^e rounded, for limbs L that are not zero
PackLimbs(s, e, L) == PackAt(s, e, L, TopLimb(L))

\* s * N * 10^p for N > 0, rounded once: for p < 0 the quotient of
\* N * B^(4 - p) and 10^-p has more than 56 bits
Decimal(s, N, p) ==
    IF p >= 0 THEN PackLimbs(s, 0, TimesTenTo(N, p))
    ELSE PackLimbs(s, (-14) * (4 - p),
                   OverTenTo([j \in 1..(4 - p) |-> 0] \o N, -p))

\* parseFloat of a text
parseFloat(t) ==
    IF t[1] = "NaN" THEN FNaN
    ELSE IF t[1] = "Infinity" THEN FInf(1)
    ELSE IF t[1] = "-Infinity" THEN FInf(-1)
    ELSE IF t[1] = "exp" THEN t[2]
    ELSE IF t[3] = <<>> THEN FZero(t[2])
    ELSE Decimal(t[2], t[3], t[4])

\* the Number a numeric literal n * 10^p denotes
Lit(n, p) ==
    parseFloat(<<"dec", IF n < 0 THEN -1 ELSE 1, Limbs(IF n < 0 THEN -n ELSE n), p>>)

(***************************************************************************)
(* The sampling loop the six equation methods share,                       *)
(*     for (let i = 0; i <= total; i += step) {                            *)
(*         const x = parseFloat(i.toFixed(1)); xValues.push(x); ... }      *)
(* The loop state is [i, x, st] with x the texts i.toFixed(1) so far and   *)
(* st "run" while the loop is in progress, "done" once i <= total fails    *)
(* and "hang" when i += step leaves i as it is: the loop then never exits. *)
(* A loop that exits does so within MaxIter evaluations of i <= total: the *)
(* longest is that of the total 1499 * 2^-1074 in 1000 intervals, whose    *)
(* step total / 1000 rounds to 2^-1074 and which takes 1500 samples.       *)
(***************************************************************************)
MaxIter == 1501

\* the state after the body has run and i += step has given next
Advance(s, next) ==
    IF next = s.i THEN [s EXCEPT !.st = "hang"]
    ELSE [i |-> next, x |-> Append(s.x, toFixed(s.i)), st |-> "run"]

SampleStep(s, limit, step) ==
    IF s.st # "run" THEN s
    ELSE IF ~FLeq(s.i, limit) THEN [s EXCEPT !.st = "done"]
    ELSE Advance(s, FAdd(s.i, step))

\* n iterations, taken in halves
RECURSIVE SampleRun(_, _, _, _)
SampleRest(t, limit, step, n) ==
    IF t.st # "run" THEN t ELSE SampleRun(t, limit, step, n)

SampleRun(s, limit, step, n) ==
    IF s.st # "run" \/ n = 0 THEN s
    ELSE IF n = 1 THEN SampleStep(s, limit, step)
    ELSE SampleRest(SampleRun(s, limit, step, n \div 2), limit, step, n - (n \div 2))

\* how the loop ends and the texts it has pushed
SampleTexts(s) == [st |-> s.st, x |-> s.x]

\* The texts i.toFixed(1) of the loop over [0, total] with step
\* total / intervals, as [st, x]
SampleX(total, intervals) ==
    SampleTexts(SampleRun([i |-> FZero(1), x |-> <<>>, st |-> "run"],
                          total, FDiv(total, FromInt(intervals)), MaxIter))

Range(f) == {f[n] : n \in DOMAIN f}

\* a value as the loops record it: parseFloat(V.toFixed(1))
Recorded(V) == parseFloat(toFixed(V))

\* The arrays xValues and vValues a loop fills, as [st, x, y], from the
\* loop's texts and the pair <<x, recorded value>> the body of the loop
\* pushes for each distinct text: x = parseFloat(i.toFixed(1)) and the
\* value depend on the text alone.  A loop that does not end returns
\* nothing.
Arrays(samples, body) ==
    IF samples.st # "done" THEN [st |-> samples.st, x |-> <<>>, y |-> <<>>]
    ELSE IF DOMAIN body = {} THEN [st |-> "done", x |-> <<>>, y |-> <<>>]
    ELSE [st |-> "done",
          x  |-> [n \in 1..Len(samples.x) |-> body[samples.x[n]][1]],
          y  |-> [n \in 1..Len(samples.x) |-> body[samples.x[n]][2]]]

(***************************************************************************)
(* BeamAnalysis.analyzer.simplySupported                                   *)
(***************************************************************************)
\* the body of the loop of getDeflectionEquation at position x
simplySupported_DeflectionSample(x, beam, load) ==
    <<x, Recorded(FMul(FMul(FMul(FMul(
             FNeg(FDiv(FMul(load, x),
                       FMul(FromInt(24), beam.material.properties.EI))),
             FAdd(FSub(Math_pow(beam.primarySpan, 3),
                       FMul(FMul(FromInt(2), beam.primarySpan), Math_pow(x, 2))),
                  Math_pow(x, 3))),
             beam.material.properties.j2), FromInt(1000)), Lit(1, 9)))>>

simplySupported_DeflectionLoop(samples, beam, load) ==
    Arrays(samples, [t \in Range(samples.x) |->
                        simplySupported_DeflectionSample(parseFloat(t), beam, load)])

simplySupported_getDeflectionEquation(beam, load) ==
    simplySupported_DeflectionLoop(SampleX(beam.primarySpan, 8), beam, load)

\* the body of the loop of getBendingMomentEquation at position x
simplySupported_BendingMomentSample(x, beam, load) ==
    <<x, Recorded(FMul(FMul(FDiv(FMul(load, x), FromInt(2)),
                            FSub(beam.primarySpan, x)),
                       FromInt(-1)))>>

simplySupported_BendingMomentLoop(samples, beam, load) ==
    Arrays(samples, [t \in Range(samples.x) |->
                        simplySupported_BendingMomentSample(parseFloat(t), beam, load)])

simplySupported_getBendingMomentEquation(beam, load) ==
    simplySupported_BendingMomentLoop(SampleX(beam.primarySpan, 10), beam, load)

\* the body of the loop of getShearForceEquation at position x
simplySupported_ShearForceSample(x, beam, load) ==
    <<x, Recorded(FMul(load, FSub(FDiv(beam.primarySpan, FromInt(2)), x)))>>

simplySupported_ShearForceLoop(samples, beam, load) ==
    Arrays(samples, [t \in Range(samples.x) |->
                        simplySupported_ShearForceSample(parseFloat(t), beam, load)])

simplySupported_getShearForceEquation(beam, load) ==
    simplySupported_ShearForceLoop(SampleX(beam.primarySpan, 10), beam, load)

(***************************************************************************)
(* BeamAnalysis.analyzer.twoSpanUnequal                                    *)
(***************************************************************************)
\* R2 = load * primarySpan + load * secondarySpan - R1 - R3
Supports(primarySpan, secondarySpan, load, M1, R1, R3) ==
    [M1 |-> M1, R1 |-> R1, R3 |-> R3,
     R2 |-> FSub(FSub(FAdd(FMul(load, primarySpan), FMul(load, secondarySpan)),
                      R1), R3)]

\* R1 = M1 / primarySpan + (load * primarySpan) / 2, and R3 likewise
SupportsM1(primarySpan, secondarySpan, load, M1) ==
    Supports(primarySpan, secondarySpan, load, M1,
             FAdd(FDiv(M1, primarySpan), FDiv(FMul(load, primarySpan), FromInt(2))),
             FAdd(FDiv(M1, secondarySpan), FDiv(FMul(load, secondarySpan), FromInt(2))))

\* calculateSupports with the minus sign of M1 left out
calculateSupports_positiveM1(primarySpan, secondarySpan, load) ==
    SupportsM1(primarySpan, secondarySpan, load,
               FDiv(FAdd(FMul(load, Math_pow(secondarySpan, 3)),
                         FMul(load, Math_pow(primarySpan, 3))),
                    FMul(FromInt(8), FAdd(primarySpan, secondarySpan))))

calculateSupports(primarySpan, secondarySpan, load) ==
    SupportsM1(primarySpan, secondarySpan, load,
               FDiv(FNeg(FAdd(FMul(load, Math_pow(secondarySpan, 3)),
                              FMul(load, Math_pow(primarySpan, 3)))),
                    FMul(FromInt(8), FAdd(primarySpan, secondarySpan))))

\* the else branch of calculateDeflectionValue
SecondSpanDeflection(x, p, span2_x) ==
    FMul(FMul(FDiv(FSub(FSub(FAdd(
        \* term1
        FMul(FDiv(FMul(p.R1, x), FromInt(6)),
             FSub(Math_pow(x, 2), Math_pow(p.primarySpan, 2))),
        \* term2
        FMul(FDiv(FMul(p.R2, span2_x), FromInt(6)),
             FAdd(FSub(Math_pow(span2_x, 2),
                       FMul(FMul(FromInt(3), p.primarySpan), span2_x)),
                  FMul(FromInt(3), Math_pow(p.primarySpan, 2))))),
        \* term3
        FDiv(FMul(p.R2, Math_pow(p.primarySpan, 3)), FromInt(6))),
        \* term4
        FMul(FDiv(FMul(p.load, span2_x), FromInt(24)),
             FSub(Math_pow(span2_x, 3), Math_pow(p.secondarySpan, 3)))),
        p.EI), p.j2), FromInt(1000))

calculateDeflectionValue(x, p) ==
    IF FLeq(x, p.primarySpan)
    THEN FMul(FMul(FMul(
             FDiv(x, FMul(FromInt(24), p.EI)),
             FSub(FAdd(FSub(FMul(FMul(FromInt(4), p.R1), Math_pow(x, 2)),
                            FMul(p.load, Math_pow(x, 3))),
                       FMul(p.load, Math_pow(p.primarySpan, 3))),
                  FMul(FMul(FromInt(4), p.R1), Math_pow(p.primarySpan, 2)))),
             p.j2), FromInt(1000))
    ELSE SecondSpanDeflection(x, p, FSub(x, p.primarySpan))

\* what the methods of a twoSpanUnequal analyzer read while they sample:
\* the beam, the load and the supports
Params(beam, load, totalLength, supports) ==
    [primarySpan |-> beam.primarySpan, secondarySpan |-> beam.secondarySpan,
     totalLength |-> totalLength,
     EI |-> beam.material.properties.EI, j2 |-> beam.material.properties.j2,
     R1 |-> supports.R1, R2 |-> supports.R2, R3 |-> supports.R3,
     load |-> load]

\* the parameters of a call of a twoSpanUnequal method, computed before
\* its loop
TwoSpanParams(beam, load) ==
    Params(beam, load, FAdd(beam.primarySpan, beam.secondarySpan),
           calculateSupports(beam.primarySpan, beam.secondarySpan, load))

\* the body of the loop of getDeflectionEquation at position x
twoSpanUnequal_DeflectionSample(x, p) ==
    <<x, Recorded(FMul(calculateDeflectionValue(x, p), Lit(1, 9)))>>

twoSpanUnequal_DeflectionLoop(samples, p) ==
    Arrays(samples, [t \in Range(samples.x) |->
                        twoSpanUnequal_DeflectionSample(parseFloat(t), p)])

twoSpanUnequal_getDeflectionEquation(beam, load) ==
    twoSpanUnequal_DeflectionLoop(
        SampleX(FAdd(beam.primarySpan, beam.secondarySpan), 1000),
        TwoSpanParams(beam, load))

calculateBendingMomentValue(x, p) ==
    IF FEq(x, FromInt(0)) \/ FEq(x, p.totalLength) THEN FromInt(0)
    ELSE IF FLt(x, p.primarySpan)
    THEN FNeg(FSub(FMul(p.R1, x), FMul(FMul(Lit(5, -1), p.load), Math_pow(x, 2))))
    ELSE IF FGt(x, p.primarySpan)
    THEN FNeg(FSub(FAdd(FMul(p.R1, x), FMul(p.R2, FSub(x, p.primarySpan))),
                   FMul(FMul(Lit(5, -1), p.load), Math_pow(x, 2))))
    ELSE FNeg(FSub(FMul(p.R1, p.primarySpan),
                   FMul(FMul(Lit(5, -1), p.load), Math_pow(p.primarySpan, 2))))

\* the body of the loop of getBendingMomentEquation at position x
twoSpanUnequal_BendingMomentSample(x, p) ==
    <<x, Recorded(calculateBendingMomentValue(x, p))>>

twoSpanUnequal_BendingMomentLoop(samples, p) ==
    Arrays(samples, [t \in Range(samples.x) |->
                        twoSpanUnequal_BendingMomentSample(parseFloat(t), p)])

twoSpanUnequal_getBendingMomentEquation(beam, load) ==
    twoSpanUnequal_BendingMomentLoop(
        SampleX(FAdd(beam.primarySpan, beam.secondarySpan), 1000),
        TwoSpanParams(beam, load))

\* calculateShearForceValue with x <= primarySpan for x < primarySpan
calculateShearForceValue_inclusive(x, p) ==
    IF FLeq(x, p.primarySpan) THEN FSub(p.R1, FMul(p.load, x))
    ELSE FSub(p.R2, FMul(p.load, FSub(x, p.primarySpan)))

calculateShearForceValue(x, p) ==
    IF FLt(x, p.primarySpan) THEN FSub(p.R1, FMul(p.load, x))
    ELSE IF FEq(x, p.primarySpan) THEN FSub(p.R2, FMul(p.load, x))
    ELSE FSub(p.R2, FMul(p.load, FSub(x, p.primarySpan)))

\* the body of the loop of getShearForceEquation at position x
twoSpanUnequal_ShearForceSample(x, p) ==
    <<x, Recorded(calculateShearForceValue(x, p))>>

twoSpanUnequal_ShearForceLoop(samples, p) ==
    Arrays(samples, [t \in Range(samples.x) |->
                        twoSpanUnequal_ShearForceSample(parseFloat(t), p)])

twoSpanUnequal_getShearForceEquation(beam, load) ==
    twoSpanUnequal_ShearForceLoop(
        SampleX(FAdd(beam.primarySpan, beam.secondarySpan), 1000),
        TwoSpanParams(beam, load))

(***************************************************************************)
(* Objects.  An object is a record of its own properties with a class tag; *)
(* undefined is the object of class "undefined".                           *)
(***************************************************************************)
Undefined == [class |-> "undefined"]

\* the methods every plain object inherits from Object.prototype
ObjectPrototype ==
    {"constructor", "toString", "toLocaleString", "valueOf",
     "hasOwnProperty", "isPrototypeOf", "propertyIsEnumerable",
     "__defineGetter__", "__defineSetter__", "__lookupGetter__",
     "__lookupSetter__"}

\* obj[key] for a plain object: an own property, else what it inherits
\* from Object.prototype (the accessor __proto__, which yields
\* Object.prototype itself, or a method), else undefined
Get(obj, key) ==
    IF key \in DOMAIN obj THEN obj[key]
    ELSE IF key = "__proto__" THEN [class |-> "Object", name |-> "Object.prototype"]
    ELSE IF key \in ObjectPrototype THEN [class |-> "Function", name |-> key]
    ELSE Undefined

\* every object but undefined is truthy
Truthy(v) == v.class # "undefined"

Material(name, properties) == [name |-> name, properties |-> properties]

Beam(primarySpan, secondarySpan, material) ==
    [primarySpan |-> primarySpan, secondarySpan |-> secondarySpan,
     material |-> material]

simplySupported(beam, load) ==
    [class |-> "simplySupported", beam |-> beam, load |-> load]

twoSpanUnequal(beam, load) ==
    [class |-> "twoSpanUnequal", beam |-> beam, load |-> load]

\* new BeamAnalysis()
BeamAnalysis ==
    [options  |-> [condition |-> "simply-supported"],
     analyzer |-> ("simply-supported" :> simplySupported(Undefined, Undefined))
               @@ ("two-span-unequal" :> twoSpanUnequal(Undefined, Undefined))]

(***************************************************************************)
(* How a call ends: it returns a value, it throws an error, or it never    *)
(* ends.                                                                   *)
(***************************************************************************)
Return(v) == [kind |-> "return", value |-> v]

Throw(name, message) == [kind |-> "throw", error |-> [name |-> name, message |-> message]]

Diverge == [kind |-> "diverge"]

\* what calling a property that is not a method of the analyzer gives
NotAFunction == [st |-> "TypeError", x |-> <<>>, y |-> <<>>]

\* analyzer.getDeflectionEquation(beam, load), by the analyzer's prototype
Call_getDeflectionEquation(analyzer, beam, load) ==
    IF analyzer.class = "simplySupported"
    THEN simplySupported_getDeflectionEquation(beam, load)
    ELSE IF analyzer.class = "twoSpanUnequal"
    THEN twoSpanUnequal_getDeflectionEquation(beam, load)
    ELSE NotAFunction

\* analyzer.getBendingMomentEquation(beam, load)
Call_getBendingMomentEquation(analyzer, beam, load) ==
    IF analyzer.class = "simplySupported"
    THEN simplySupported_getBendingMomentEquation(beam, load)
    ELSE IF analyzer.class = "twoSpanUnequal"
    THEN twoSpanUnequal_getBendingMomentEquation(beam, load)
    ELSE NotAFunction

\* analyzer.getShearForceEquation(beam, load)
Call_getShearForceEquation(analyzer, beam, load) ==
    IF analyzer.class = "simplySupported"
    THEN simplySupported_getShearForceEquation(beam, load)
    ELSE IF analyzer.class = "twoSpanUnequal"
    THEN twoSpanUnequal_getShearForceEquation(beam, load)
    ELSE NotAFunction

\* return { beam: beam, load: load, equation: r } for the arrays r of the
\* analyzer's method
Result(beam, load, method, r) ==
    IF r.st = "done"
    THEN Return([beam |-> beam, load |-> load, equation |-> [x |-> r.x, y |-> r.y]])
    ELSE IF r.st = "TypeError"
    THEN Throw("TypeError", "analyzer." \o method \o " is not a function")
    ELSE Diverge

(***************************************************************************)
(* BeamAnalysis.prototype.  A method is given the instance, this, and      *)
(* yields the instance and the beam as the call leaves them, and how the   *)
(* call ends.                                                              *)
(***************************************************************************)
\* getDeflection keeping the condition of the call in this.options
getDeflection_remembering(this, beam, load, condition) ==
    [this |-> [this EXCEPT !.options.condition = condition], beam |-> beam,
     outcome |->
        IF Truthy(Get(this.analyzer, condition))
        THEN Result(beam, load, "getDeflectionEquation",
                    Call_getDeflectionEquation(Get(this.analyzer, condition),
                                               beam, load))
        ELSE Throw("Error", "Invalid condition")]

getDeflection(this, beam, load, condition) ==
    [this |-> this, beam |-> beam,
     outcome |->
        IF Truthy(Get(this.analyzer, condition))
        THEN Result(beam, load, "getDeflectionEquation",
                    Call_getDeflectionEquation(Get(this.analyzer, condition),
                                               beam, load))
        ELSE Throw("Error", "Invalid condition")]

getBendingMoment(this, beam, load, condition) ==
    [this |-> this, beam |-> beam,
     outcome |->
        IF Truthy(Get(this.analyzer, condition))
        THEN Result(beam, load, "getBendingMomentEquation",
                    Call_getBendingMomentEquation(Get(this.analyzer, condition),
                                                  beam, load))
        ELSE Throw("Error", "Invalid condition")]

getShearForce(this, beam, load, condition) ==
    [this |-> this, beam |-> beam,
     outcome |->
        IF Truthy(Get(this.analyzer, condition))
        THEN Result(beam, load, "getShearForceEquation",
                    Call_getShearForceEquation(Get(this.analyzer, condition),
                                               beam, load))
        ELSE Throw("Error", "Invalid condition")]

(***************************************************************************)
(* The inputs of the calls.                                                *)
(***************************************************************************)
steel == Material("steel", [EI |-> Lit(21, 7), j2 |-> Lit(1, 0)])

Beams ==
    { Beam(Lit(4, 0), Lit(6, 0), steel),
      Beam(Lit(2, 0), Lit(6, 0), steel),
      Beam(Lit(5, -1), Lit(75, -2), steel),
      Beam(Lit(7, 0), Lit(0, 0), steel),
      Beam(Lit(0, 0), Lit(0, 0), steel),
      Beam(Lit(-4, 0), Lit(4, 0), steel) }

Loads == { Lit(10, 0), Lit(0, 0) }

Registered == {"simply-supported", "two-span-unequal"}

Conditions == Registered \cup {"three-span", "constructor", "__proto__"}

\* the spans and the loads the helpers of the twoSpanUnequal analyzer are
\* called with
Spans ==
    { Lit(4, 0), Lit(6, 0), Lit(2, 0), Lit(5, -1), Lit(75, -2), Lit(7, -1),
      Lit(1004, -2), Lit(29, -1) }

HelperBeams ==
    { Beam(Lit(4, 0), Lit(6, 0), steel),
      Beam(Lit(2, 0), Lit(6, 0), steel),
      Beam(Lit(5, -1), Lit(75, -2), steel),
      Beam(Lit(7, -1), Lit(1004, -2), steel) }

HelperLoads == { Lit(10, 0), Lit(0, 0), Lit(33, -1), Lit(-25, -1) }

\* the positions the helpers are called at: x = parseFloat(i.toFixed(1)),
\* the tenths up to MaxTenths
MaxTenths == 45

Positions == { Lit(n, -1) : n \in 0..MaxTenths }

(***************************************************************************)
(* One caller and one BeamAnalysis instance.  call is the call in progress *)
(* or just ended with the arguments as they were given, beam is the Beam   *)
(* of that call as the call left it, and outcome is how the call ended.    *)
(***************************************************************************)
VARIABLES beamAnalysis, call, beam, outcome

vars == <<beamAnalysis, call, beam, outcome>>

Idle == [method |-> "none"]

Init ==
    /\ beamAnalysis = BeamAnalysis
    /\ call = Idle
    /\ beam = Undefined
    /\ outcome = [kind |-> "none"]

\* the state a call leaves: the call with its arguments, and what the
\* method r gave
Ended(method, b, load, condition, r) ==
    /\ call' = [method |-> method, beam |-> b, load |-> load, condition |-> condition]
    /\ beamAnalysis' = r.this
    /\ beam' = r.beam
    /\ outcome' = r.outcome

CallGetDeflection ==
    /\ call = Idle
    /\ \E b \in Beams, load \in Loads, condition \in Conditions :
          Ended("getDeflection", b, load, condition,
                getDeflection(beamAnalysis, b, load, condition))

CallGetBendingMoment ==
    /\ call = Idle
    /\ \E b \in Beams, load \in Loads, condition \in Conditions :
          Ended("getBendingMoment", b, load, condition,
                getBendingMoment(beamAnalysis, b, load, condition))

CallGetShearForce ==
    /\ call = Idle
    /\ \E b \in Beams, load \in Loads, condition \in Conditions :
          Ended("getShearForce", b, load, condition,
                getShearForce(beamAnalysis, b, load, condition))

\* the state a call of a helper of the twoSpanUnequal analyzer leaves
HelperEnded(c, value) ==
    /\ call' = c
    /\ outcome' = Return(value)
    /\ beam' = Undefined
    /\ UNCHANGED beamAnalysis

\* analyzer.calculateSupports(primarySpan, secondarySpan, load)
CallCalculateSupports ==
    /\ call = Idle
    /\ \E primarySpan \in Spans, secondarySpan \in Spans, load \in HelperLoads :
          HelperEnded([method |-> "calculateSupports", primarySpan |-> primarySpan,
                       secondarySpan |-> secondarySpan, load |-> load],
                      calculateSupports(primarySpan, secondarySpan, load))

\* a helper called as the methods of the analyzer call it: at x, with the
\* parameters p of a beam and a load
HelperCalled(method, x, p, value) ==
    HelperEnded([method |-> method, x |-> x, p |-> p], value)

CalculateBendingMomentValueCalled(x, p) ==
    HelperCalled("calculateBendingMomentValue", x, p,
                 calculateBendingMomentValue(x, p))

CalculateShearForceValueCalled(x, p) ==
    HelperCalled("calculateShearForceValue", x, p, calculateShearForceValue(x, p))

\* the calls of a helper with the parameters p, one for each position
CalculateBendingMomentValueAlong(p) ==
    \E x \in Positions : CalculateBendingMomentValueCalled(x, p)

CalculateShearForceValueAlong(p) ==
    \E x \in Positions : CalculateShearForceValueCalled(x, p)

\* analyzer.calculateBendingMomentValue(x, { primarySpan, totalLength, R1, R2, load })
CallCalculateBendingMomentValue ==
    /\ call = Idle
    /\ \E b \in HelperBeams, load \in HelperLoads :
          CalculateBendingMomentValueAlong(TwoSpanParams(b, load))

\* analyzer.calculateShearForceValue(x, { primarySpan, R1, R2, load })
CallCalculateShearForceValue ==
    /\ call = Idle
    /\ \E b \in HelperBeams, load \in HelperLoads :
          CalculateShearForceValueAlong(TwoSpanParams(b, load))

\* the caller goes on after a call that returned or threw; a call that
\* never ends leaves the caller where it is
Continue ==
    /\ outcome.kind \in {"return", "throw"}
    /\ call' = Idle
    /\ beam' = Undefined
    /\ outcome' = [kind |-> "none"]
    /\ UNCHANGED beamAnalysis

Next ==
    \/ CallGetDeflection
    \/ CallGetBendingMoment
    \/ CallGetShearForce
    \/ CallCalculateSupports
    \/ CallCalculateBendingMomentValue
    \/ CallCalculateShearForceValue
    \/ Continue

Spec == Init /\ [][Next]_vars

(***************************************************************************)
(* Properties.  They read the call that has just ended: its arguments in   *)
(* call, how it ended in outcome.                                          *)
(***************************************************************************)
Facade == {"getDeflection", "getBendingMoment", "getShearForce"}

\* v > 0
Positive(v) == FGt(v, FZero(1))

\* |v|
FAbs(v) == [v EXCEPT !.s = 1]

\* the spans a condition reads are positive
PositiveSpans(condition) ==
    /\ Positive(call.beam.primarySpan)
    /\ condition = "two-span-unequal" => Positive(call.beam.secondarySpan)

\* the call of method with the condition has returned a result for a beam
\* of positive spans
Returned(method, condition) ==
    /\ call.method = method
    /\ call.condition = condition
    /\ outcome.kind = "return"
    /\ PositiveSpans(condition)

\* the length the condition of the call samples
TotalLength ==
    IF call.condition = "simply-supported" THEN call.beam.primarySpan
    ELSE FAdd(call.beam.primarySpan, call.beam.secondarySpan)

\* the number of intervals the method of the call divides the length into
Intervals ==
    IF call.condition = "two-span-unequal" THEN 1000
    ELSE IF call.method = "getDeflection" THEN 8 ELSE 10

\* the first and the last y of the returned equation are zero
EndsAtZero ==
    /\ Len(outcome.value.equation.y) >= 1
    /\ FEq(outcome.value.equation.y[1], FZero(1))
    /\ FEq(outcome.value.equation.y[Len(outcome.value.equation.y)], FZero(1))

\* C1: a call of getDeflection, getBendingMoment or getShearForce whose
\* condition is not one of the two registered identifiers ends by throwing
\* the error 'Invalid condition'; no equation method is called and nothing
\* is returned.
C1_InvalidConditionRejected ==
    (call.method \in Facade /\ call.condition \notin Registered)
        => outcome = Throw("Error", "Invalid condition")

\* C2: for every beam (zero and negative spans and L1 + L2 = 0 included),
\* every load and each registered condition, a call of getDeflection,
\* getBendingMoment or getShearForce ends, throws nothing, and returns at
\* most 1001 samples.
C2_Total ==
    (call.method \in Facade /\ call.condition \in Registered)
        => /\ outcome.kind = "return"
           /\ Len(outcome.value.equation.x) <= 1001
           /\ Len(outcome.value.equation.y) <= 1001

\* C3: for positive spans the returned x and y have the same length: 9 for
\* the simply-supported deflection, 11 for the simply-supported bending
\* moment and shear force, 1001 for the three two-span-unequal equations.
C3_SampleCounts ==
    \A method \in Facade, condition \in Registered :
        Returned(method, condition)
            => /\ Len(outcome.value.equation.x) = Intervals + 1
               /\ Len(outcome.value.equation.y) = Intervals + 1

\* C4: for positive spans the returned x starts at 0, every element is
\* greater than the one before it, and the last element is within one
\* step of the total length.
C4_Ascending ==
    \A method \in Facade, condition \in Registered :
        Returned(method, condition)
            => LET x == outcome.value.equation.x
               IN  /\ Len(x) >= 1
                   /\ FEq(x[1], FZero(1))
                   /\ \A n \in 1..(Len(x) - 1) : FLt(x[n], x[n + 1])
                   /\ FLeq(FAbs(FSub(TotalLength, x[Len(x)])),
                           FDiv(TotalLength, FromInt(Intervals)))

\* C5: for positive spans the first and the last y of the two-span-unequal
\* bending moment are exactly 0.
C5_TwoSpanMomentEndsAtZero ==
    Returned("getBendingMoment", "two-span-unequal") => EndsAtZero

\* C6: for a positive span the first and the last y of the
\* simply-supported deflection and of the simply-supported bending moment
\* are 0.
C6_SimplySupportedEndsAtZero ==
    (\/ Returned("getDeflection", "simply-supported")
     \/ Returned("getBendingMoment", "simply-supported")) => EndsAtZero

\* the tolerance of the equilibrium of the reactions
Near(a, b) == FLeq(FAbs(FSub(a, b)), Lit(1, -9))

\* C7: for positive spans L1, L2 and every load w, calculateSupports
\* returns M1 = -(w * L2^3 + w * L1^3) / (8 * (L1 + L2)),
\* R1 = M1 / L1 + w * L1 / 2 and R3 = M1 / L2 + w * L2 / 2, and reactions
\* whose sum R1 + R2 + R3 is w * (L1 + L2) up to rounding; L1 = 4, L2 = 6,
\* w = 10 give M1 = -35 and R1 = 11.25.
C7_Supports ==
    call.method = "calculateSupports"
        => LET L1 == call.primarySpan
               L2 == call.secondarySpan
               w  == call.load
               s  == outcome.value
           IN  /\ outcome.kind = "return"
               /\ FEq(s.M1, FDiv(FNeg(FAdd(FMul(w, Math_pow(L2, 3)),
                                           FMul(w, Math_pow(L1, 3)))),
                                 FMul(FromInt(8), FAdd(L1, L2))))
               /\ FEq(s.R1, FAdd(FDiv(s.M1, L1), FDiv(FMul(w, L1), FromInt(2))))
               /\ FEq(s.R3, FAdd(FDiv(s.M1, L2), FDiv(FMul(w, L2), FromInt(2))))
               /\ Near(FAdd(FAdd(s.R1, s.R2), s.R3), FMul(w, FAdd(L1, L2)))
               /\ (FEq(L1, Lit(4, 0)) /\ FEq(L2, Lit(6, 0)) /\ FEq(w, Lit(10, 0)))
                     => FEq(s.M1, Lit(-35, 0)) /\ FEq(s.R1, Lit(1125, -2))

\* calculateSupports has returned the reactions of L1 = 4, L2 = 6, w = 10
C7_Witness ==
    /\ call.method = "calculateSupports"
    /\ call.primarySpan = Lit(4, 0)
    /\ call.secondarySpan = Lit(6, 0)
    /\ call.load = Lit(10, 0)
    /\ outcome = Return([M1 |-> Lit(-35, 0), R1 |-> Lit(1125, -2),
                         R2 |-> outcome.value.R2, R3 |-> outcome.value.R3])
    /\ Positive(outcome.value.R2)
    /\ Positive(outcome.value.R3)

\* the last sample below L1 and the first sample above it
LastBelow(x, L1) ==
    CHOOSE n \in 1..Len(x) :
        FLt(x[n], L1) /\ \A m \in (n + 1)..Len(x) : ~FLt(x[m], L1)

FirstAbove(x, L1) ==
    CHOOSE n \in 1..Len(x) :
        FGt(x[n], L1) /\ \A m \in 1..(n - 1) : ~FGt(x[m], L1)

\* C8: at a sample position x the two-span-unequal shear is R1 - w * x
\* for x < L1, R2 - w * x for x = L1 and R2 - w * (x - L1) for x > L1; the
\* moment at x = L1 is -(R1 * L1 - 0.5 * w * L1^2), which is also what the
\* formula of x > L1 gives at L1; and under a load w > 0 the recorded
\* shear rises from the last sample below L1 to the first sample above
\* L1, while within a span it only falls.
C8_Branches ==
    /\ call.method = "calculateShearForceValue"
          => LET x == call.x
                 p == call.p
             IN  outcome = Return(
                     IF FLt(x, p.primarySpan) THEN FSub(p.R1, FMul(p.load, x))
                     ELSE IF FEq(x, p.primarySpan) THEN FSub(p.R2, FMul(p.load, x))
                     ELSE FSub(p.R2, FMul(p.load, FSub(x, p.primarySpan))))
    /\ (call.method = "calculateBendingMomentValue" /\ FEq(call.x, call.p.primarySpan))
          => LET L1 == call.p.primarySpan
                 p  == call.p
             IN  /\ outcome = Return(
                       FNeg(FSub(FMul(p.R1, L1),
                                 FMul(FMul(Lit(5, -1), p.load), Math_pow(L1, 2)))))
                 /\ outcome = Return(
                       FNeg(FSub(FAdd(FMul(p.R1, L1), FMul(p.R2, FSub(L1, L1))),
                                 FMul(FMul(Lit(5, -1), p.load), Math_pow(L1, 2)))))
    /\ (Returned("getShearForce", "two-span-unequal") /\ Positive(call.load))
          => LET x  == outcome.value.equation.x
                 y  == outcome.value.equation.y
                 L1 == call.beam.primarySpan
             IN  FLt(y[LastBelow(x, L1)], y[FirstAbove(x, L1)])

\* calculateShearForceValue has been called at x = L1 under a load that is
\* not zero, where the branches of x < L1 and of x = L1 differ
C8_Witness ==
    /\ call.method = "calculateShearForceValue"
    /\ FEq(call.x, call.p.primarySpan)
    /\ Positive(call.p.load)
    /\ outcome = Return(FSub(call.p.R2, FMul(call.p.load, call.x)))
    /\ outcome # Return(FSub(call.p.R1, FMul(call.p.load, call.x)))

\* the outcome of the call on an instance no call has been made on
FreshOutcome ==
    IF call.method = "getDeflection"
    THEN getDeflection(BeamAnalysis, call.beam, call.load, call.condition).outcome
    ELSE IF call.method = "getBendingMoment"
    THEN getBendingMoment(BeamAnalysis, call.beam, call.load, call.condition).outcome
    ELSE getShearForce(BeamAnalysis, call.beam, call.load, call.condition).outcome

\* C9: whatever calls came before, the instance is as it was constructed
\* (its options and its analyzer registry, with nothing of a call kept in
\* them), the beam and its material are as they were given, a returned
\* result is {beam, load, equation} with the beam and the load of the
\* call, and the call ends as it ends on a fresh instance.
C9_NoSideEffects ==
    /\ beamAnalysis = BeamAnalysis
    /\ call.method \in Facade
          => /\ beam = call.beam
             /\ outcome.kind = "return"
                   => /\ DOMAIN outcome.value = {"beam", "load", "equation"}
                      /\ outcome.value.beam = call.beam
                      /\ outcome.value.load = call.load
                      /\ DOMAIN outcome.value.equation = {"x", "y"}
             /\ outcome = FreshOutcome

\* a two-span-unequal call with a condition other than the default one
\* has returned its 1001 samples
C9_Witness ==
    /\ call.method = "getDeflection"
    /\ call.condition = "two-span-unequal"
    /\ call.condition # beamAnalysis.options.condition
    /\ outcome.kind = "return"
    /\ Len(outcome.value.equation.x) = 1001
    /\ beam = call.beam

\* C10: for positive spans the first y of the two-span-unequal shear force
\* is R1 and the last y is -R3, both as recorded with one decimal, for the
\* reactions R1 and R3 of calculateSupports.
C10_ShearClosesOnReactions ==
    Returned("getShearForce", "two-span-unequal")
        => LET y == outcome.value.equation.y
               s == calculateSupports(call.beam.primarySpan,
                                      call.beam.secondarySpan, call.load)
           IN  /\ Len(y) >= 1
               /\ FEq(y[1], Recorded(s.R1))
               /\ FEq(y[Len(y)], Recorded(FNeg(s.R3)))
====
